---- MODULE Spec2Model ----
(***************************************************************************)
(* Model of the multi-agent data analysis pipeline: the two remote agents  *)
(* (agents/statistical.py, agents/anomaly.py), the local visualization     *)
(* agent (agents/visualization.py), the coordinator                        *)
(* (agents/coordinator.py) and the orchestrator (main.py).                 *)
(*                                                                         *)
(* Text (stdout, messages, error messages, dict values) is a sequence of   *)
(* tokens.  A Python dict is a function from its keys to text.             *)
(***************************************************************************)
EXTENDS Integers, Sequences, FiniteSets, TLC

VARIABLES
    \* ---- remote agents, one entry per agent ----
    pc,           \* position of the coroutine in its body
    sandbox,      \* "none" | "live" | "killed": the E2B session of the agent
    messages,     \* the `messages` list sent to the generator
    response,     \* the generator's answer to the first request
    tool_use,     \* the tool_use block picked from the first response
    execution,    \* the Execution returned by sandbox.run_code
    stdout_text,  \* "\n".join(execution.logs.stdout)
    results,      \* the local dict `results`
    ret,          \* the dict returned to the caller
    exc,          \* the exception caught by the outer handler ("none" if none)
    raised,       \* TRUE iff an exception left the agent
    calls,        \* the external calls the agent has made, in order
    \* ---- local visualization agent ----
    vpc, df, charts, vret, vexc, vraised, chartlog,
    \* ---- orchestrator and coordinator ----
    mpc, datasetExists, ready, stats_results, anomaly_results, viz_results,
    chart_paths, synthArgs, insights, files,
    trace, coord, html_report, json_dump,
    \* ---- JSON extraction on its own (specification SpecParse) ----
    p_text, p_out,
    \* ---- report rendering on its own (specification SpecRender) ----
    r_in, r_out,
    \* ---- remote visualization agent (specification SpecRemoteViz) ----
    rv_pc, rv_requests, rv_checks, rv_code, rv_ran, rv_sandbox

agentVars == <<pc, sandbox, messages, response, tool_use, execution, stdout_text,
               results, ret, exc, raised, calls>>
vizVars   == <<vpc, df, charts, vret, vexc, vraised, chartlog>>
mainRest  == <<mpc, datasetExists, stats_results, anomaly_results,
               viz_results, chart_paths, synthArgs, insights, files,
               trace, coord, html_report, json_dump>>
mainVars  == <<ready, mainRest>>
parseVars == <<p_text, p_out>>
renderVars == <<r_in, r_out>>
remoteVizVars == <<rv_pc, rv_requests, rv_checks, rv_code, rv_ran, rv_sandbox>>
sideVars  == <<parseVars, renderVars, remoteVizVars>>
vars      == <<agentVars, vizVars, mainVars, sideVars>>

Agents == {"stat", "anom"}

(***************************************************************************)
(* Dicts                                                                   *)
(***************************************************************************)
EmptyDict == [k \in {} |-> <<>>]

Put(d, k, v) == [x \in (DOMAIN d) \cup {k} |-> IF x = k THEN v ELSE d[x]]

HasKey(d, k) == k \in DOMAIN d

EmptyList == <<"[]">>
EmptyMap  == <<"{}">>
NoneText  == <<"None">>

(***************************************************************************)
(* Text and the rightmost-brace JSON extraction                            *)
(***************************************************************************)
LB    == "{"
RB    == "}"
COMMA == ","
NL    == "\n"

\* A scalar member `"a": 1` is one token; "dq:" is the key of a member whose
\* value is a nested object; "n" is any text that is no JSON punctuation.
PairTokens == {"a:1", "b:2"}

PairKey(t) == IF t = "a:1" THEN "a" ELSE "b"

PairVal(t) == IF t = "a:1" THEN <<"1">> ELSE <<"2">>

NestKey == "dq:"

Alphabet == {LB, RB, COMMA, NL, "a:1", "b:2", NestKey, "n"}

\* "\n".join(lines)
RECURSIVE JoinLines(_)
JoinLines(lines) ==
    IF Len(lines) = 0 THEN <<>>
    ELSE IF Len(lines) = 1 THEN lines[1]
    ELSE lines[1] \o <<NL>> \o JoinLines(Tail(lines))

\* str.rfind(ch): 0-based index of the last occurrence, -1 if there is none
RECURSIVE RFindFrom(_, _, _)
RFindFrom(s, ch, i) ==
    IF i = 0 THEN -1
    ELSE IF s[i] = ch THEN i - 1
    ELSE RFindFrom(s, ch, i - 1)

RFind(s, ch) == RFindFrom(s, ch, Len(s))

\* str.find(ch): 0-based index of the first occurrence, -1 if there is none
RECURSIVE FindFrom(_, _, _)
FindFrom(s, ch, i) ==
    IF i > Len(s) THEN -1
    ELSE IF s[i] = ch THEN i - 1
    ELSE FindFrom(s, ch, i + 1)

\* s[start:end] for 0 <= start
Slice(s, start, end) == SubSeq(s, start + 1, IF end > Len(s) THEN Len(s) ELSE end)

\* json.loads: whitespace between tokens is skipped
StripWs(s) == SelectSeq(s, LAMBDA t : t # NL)

ParseFail == [ok |-> FALSE, next |-> 0, obj |-> EmptyDict]

RECURSIVE ParseObject(_, _)
RECURSIVE ParseMembers(_, _, _)
RECURSIVE AfterMember(_, _, _)
ParseObject(s, i) ==
    IF i > Len(s) \/ s[i] # LB THEN ParseFail
    ELSE IF i + 1 <= Len(s) /\ s[i + 1] = RB
         THEN [ok |-> TRUE, next |-> i + 2, obj |-> EmptyDict]
         ELSE ParseMembers(s, i + 1, EmptyDict)

ParseMembers(s, i, acc) ==
    IF i > Len(s) THEN ParseFail
    ELSE IF s[i] \in PairTokens
         THEN AfterMember(s, i + 1, Put(acc, PairKey(s[i]), PairVal(s[i])))
    ELSE IF s[i] = NestKey
         THEN LET r == ParseObject(s, i + 1)
              IN  IF r.ok
                  THEN AfterMember(s, r.next,
                           Put(acc, "data_quality", SubSeq(s, i + 1, r.next - 1)))
                  ELSE ParseFail
    ELSE ParseFail

AfterMember(s, i, acc) ==
    IF i > Len(s) THEN ParseFail
    ELSE IF s[i] = RB THEN [ok |-> TRUE, next |-> i + 1, obj |-> acc]
    ELSE IF s[i] = COMMA THEN ParseMembers(s, i + 1, acc)
    ELSE ParseFail

\* json.loads(json_str): ok = FALSE stands for json.JSONDecodeError
JsonLoads(str) ==
    LET t == StripWs(str)
        r == ParseObject(t, 1)
    IN  IF r.ok /\ r.next = Len(t) + 1
        THEN [ok |-> TRUE, obj |-> r.obj]
        ELSE [ok |-> FALSE, obj |-> EmptyDict]

\* the first `{` instead of the last one
JsonStartFirst(text) == FindFrom(text, LB, 1)

\* json_start = stdout_text.rfind('{')
JsonStart(text) == RFind(text, LB)

\* json_end = stdout_text.rfind('}') + 1
JsonEnd(text) == RFind(text, RB) + 1

\* the `if json_start >= 0 and json_end > json_start` test and the slice
NoSpan == [tried |-> FALSE, str |-> <<>>]

JsonSpan(text) ==
    IF JsonStart(text) >= 0 /\ JsonEnd(text) > JsonStart(text)
    THEN [tried |-> TRUE, str |-> Slice(text, JsonStart(text), JsonEnd(text))]
    ELSE NoSpan

\* [str(r) for r in execution.results]
ResultsText(rs) == <<"[">> \o rs \o <<"]">>

\* the fallback dict of the two agents
RawFallback(a, text, rs) ==
    IF a = "stat"
    THEN Put(Put(EmptyDict, "raw_output", text), "results", ResultsText(rs))
    ELSE Put(Put(Put(EmptyDict, "raw_output", text), "outliers", EmptyList),
             "data_quality", EmptyMap)

\* the try/except around the extraction: the value of `results` after it
ExtractResults(a, text, rs) ==
    LET sp == JsonSpan(text)
    IN  IF sp.tried
        THEN IF JsonLoads(sp.str).ok THEN JsonLoads(sp.str).obj
             ELSE RawFallback(a, text, rs)
        ELSE RawFallback(a, text, rs)

(***************************************************************************)
(* What the external services can answer                                   *)
(***************************************************************************)
TextBlock == [type |-> "text", id |-> "none", text |-> <<"prose">>]

ToolBlock(id) == [type |-> "tool_use", id |-> id, text |-> <<"code">>]

\* client.messages.create(..., tools=tools) for the first request
GenResponses ==
    { [stop_reason |-> "end_turn", content |-> <<TextBlock>>],
      [stop_reason |-> "tool_use", content |-> <<TextBlock, ToolBlock("tu1")>>],
      [stop_reason |-> "tool_use", content |-> <<ToolBlock("tu2"), ToolBlock("tu1")>>],
      [stop_reason |-> "tool_use", content |-> <<TextBlock>>] }

\* content of the answer to the interpretation request
InterpContents == { <<>>, <<TextBlock>>, <<ToolBlock("tu3")>> }

\* execution.logs.stdout: a list of lines
StdoutSamples ==
    { << <<"n", LB, "a:1", RB, "n", LB, "b:2", RB, "n">> >>,
      << <<LB>>, <<"a:1", COMMA, "b:2">>, <<RB>> >>,
      << <<"n">> >>,
      << <<LB, "a:1", RB>>, <<LB>> >>,
      << <<LB, NestKey, LB, "a:1", RB, RB>> >>,
      << <<LB, "n", RB>> >>,
      << >> }

\* sandbox.run_code(code): the Execution object
Executions ==
    { [error |-> TRUE,  has_tb |-> tb, stdout |-> << >>, results |-> << >>]
        : tb \in BOOLEAN }
    \cup
    { [error |-> FALSE, has_tb |-> FALSE, stdout |-> so, results |-> rs]
        : so \in StdoutSamples, rs \in { <<"r1">> } }

NoExecution == [error |-> FALSE, has_tb |-> FALSE, stdout |-> << >>, results |-> << >>]

NoBlock == [type |-> "none", id |-> "none", text |-> << >>]

NoResponse == [stop_reason |-> "none", content |-> << >>]

\* str(execution.error)
ExecErrorText == <<"ExecutionError">>

TracebackText == <<"Traceback">>

\* str(e) of the exception caught by the outer handler
ExcMsg(kind) == IF kind = "StopIteration" THEN << >> ELSE <<kind>>

(***************************************************************************)
(* The remote agents: run_statistical_analysis / run_anomaly_detection     *)
(***************************************************************************)
Prompt(a) == [role |-> "user",
              content |-> <<[type |-> "text", id |-> "none", text |-> <<a, "prompt">>]>>]

\* the dict of the outer `except Exception as e` clause
ErrorResult(a, msg) ==
    IF a = "stat"
    THEN Put(EmptyDict, "error", msg)
    ELSE Put(Put(Put(EmptyDict, "error", msg), "outliers", EmptyList),
             "data_quality", EmptyMap)

\* the dict built when execution.error is set
ExecErrorResult(a, e) ==
    IF a = "stat"
    THEN Put(Put(EmptyDict, "error", ExecErrorText), "traceback",
             IF e.has_tb THEN TracebackText ELSE NoneText)
    ELSE Put(Put(Put(EmptyDict, "error", ExecErrorText), "outliers", EmptyList),
             "data_quality", EmptyMap)

\* next(block for block in response.content if block.type == "tool_use")
RECURSIVE FirstToolUse(_)
FirstToolUse(content) ==
    IF Len(content) = 0 THEN NoBlock
    ELSE IF content[1].type = "tool_use" THEN content[1]
    ELSE FirstToolUse(Tail(content))

\* one sandbox kept at module level and used by both agents
SessionShared(a) == "stat"

\* `sandbox = Sandbox.create()` binds a local of the coroutine: the session an
\* agent works on is its own
SessionOf(a) == a

\* statistical.py ends with sandbox.kill(); anomaly.py with sandbox.kill()(),
\* which calls the value kill() returned and raises TypeError
KillResultCalled(a) == a = "anom"

\* the agent's task is the one the event loop is running
Scheduled(a) == ready # << >> /\ Head(ready) = a

\* control moves on inside the try block
AgentGoto(a, next) ==
    /\ pc' = [pc EXCEPT ![a] = next]
    /\ UNCHANGED <<ret, exc, raised, ready>>

\* a handler that lets the exception go on to the caller
AgentExceptReraise(a, kind) ==
    /\ pc' = [pc EXCEPT ![a] = "done"]
    /\ exc' = [exc EXCEPT ![a] = kind]
    /\ raised' = [raised EXCEPT ![a] = TRUE]
    /\ ready' = Tail(ready)
    /\ UNCHANGED ret

\* an exception reaches `except Exception as e`: the agent returns the error dict
AgentExcept(a, kind) ==
    /\ pc' = [pc EXCEPT ![a] = "done"]
    /\ exc' = [exc EXCEPT ![a] = kind]
    /\ ret' = [ret EXCEPT ![a] = ErrorResult(a, ExcMsg(kind))]
    /\ ready' = Tail(ready)
    /\ UNCHANGED raised

\* a coroutine that goes round again after destroying its session
AgentReturnLoop(a, value) ==
    /\ pc' = [pc EXCEPT ![a] = "upload"]
    /\ ret' = [ret EXCEPT ![a] = value]
    /\ UNCHANGED <<exc, raised, ready>>

\* `return results`
AgentReturn(a, value) ==
    /\ pc' = [pc EXCEPT ![a] = "done"]
    /\ ret' = [ret EXCEPT ![a] = value]
    /\ ready' = Tail(ready)
    /\ UNCHANGED <<exc, raised>>

Call(a, what) == calls' = [calls EXCEPT ![a] = Append(@, what)]

AgentStart(a) ==
    /\ Scheduled(a) /\ pc[a] = "init"
    /\ AgentGoto(a, "create")
    /\ UNCHANGED <<sandbox, messages, response, tool_use, execution, stdout_text, results,
                   calls>>
    /\ UNCHANGED <<vizVars, sideVars>>
    /\ UNCHANGED mainRest

\* sandbox = Sandbox.create()
AgentCreate(a) ==
    /\ Scheduled(a) /\ pc[a] = "create"
    /\ Call(a, "create")
    /\ \E ok \in BOOLEAN :
         IF ok
         THEN /\ sandbox' = [sandbox EXCEPT ![SessionOf(a)] = "live"]
              /\ AgentGoto(a, "upload")
         ELSE /\ AgentExcept(a, "SandboxError")
              /\ UNCHANGED sandbox
    /\ UNCHANGED <<messages, response, tool_use, execution, stdout_text, results>>
    /\ UNCHANGED <<vizVars, sideVars>>
    /\ UNCHANGED mainRest

\* with open(csv_path, "rb") as f: dataset_path = sandbox.files.write("data.csv", f)
AgentUpload(a) ==
    /\ Scheduled(a) /\ pc[a] = "upload"
    /\ \E outcome \in {"ok", "FileNotFoundError", "PermissionError", "UploadError"} :
         /\ IF outcome \in {"ok", "UploadError"}
            THEN Call(a, "upload") ELSE UNCHANGED calls
         /\ IF outcome = "ok"
            THEN AgentGoto(a, "generate")
            ELSE AgentExcept(a, outcome)
    /\ UNCHANGED <<sandbox, messages, response, tool_use, execution, stdout_text, results>>
    /\ UNCHANGED <<vizVars, sideVars>>
    /\ UNCHANGED mainRest

\* messages = [prompt]; response = client.messages.create(...);
\* messages.append(assistant); results = {}; the stop_reason test and next(...)
AgentGenerate(a) ==
    /\ Scheduled(a) /\ pc[a] = "generate"
    /\ Call(a, "generate")
    /\ \/ /\ AgentExcept(a, "GeneratorError")
          /\ messages' = [messages EXCEPT ![a] = <<Prompt(a)>>]
          /\ UNCHANGED <<response, tool_use, results>>
       \/ \E r \in GenResponses :
            /\ messages' = [messages EXCEPT ![a] =
                              <<Prompt(a), [role |-> "assistant", content |-> r.content]>>]
            /\ response' = [response EXCEPT ![a] = r]
            /\ results' = [results EXCEPT ![a] = EmptyDict]
            /\ IF r.stop_reason = "tool_use"
               THEN IF FirstToolUse(r.content) = NoBlock
                    THEN /\ AgentExcept(a, "StopIteration")
                         /\ UNCHANGED tool_use
                    ELSE /\ tool_use' = [tool_use EXCEPT ![a] = FirstToolUse(r.content)]
                         /\ AgentGoto(a, "execute")
               ELSE /\ AgentGoto(a, "kill")
                    /\ UNCHANGED tool_use
    /\ UNCHANGED <<sandbox, execution, stdout_text>>
    /\ UNCHANGED <<vizVars, sideVars>>
    /\ UNCHANGED mainRest

\* an agent that runs the code again when the execution reports an error
AfterExecutionRetry(e) == IF e.error THEN "execute" ELSE "parse"

\* `if execution.error:` fills the error dict and falls through to the clean-up
AfterExecution(e) == IF e.error THEN "kill" ELSE "parse"

\* execution = sandbox.run_code(code) and the `if execution.error` branch;
\* on success stdout_text = "\n".join(execution.logs.stdout)
AgentExecute(a) ==
    /\ Scheduled(a) /\ pc[a] = "execute"
    /\ Call(a, "run_code")
    /\ \/ /\ AgentExcept(a, "RunCodeError")
          /\ UNCHANGED <<execution, stdout_text, results>>
       \/ \E e \in Executions :
            /\ execution' = [execution EXCEPT ![a] = e]
            /\ IF e.error
               THEN /\ results' = [results EXCEPT ![a] = ExecErrorResult(a, e)]
                    /\ AgentGoto(a, AfterExecution(e))
                    /\ UNCHANGED stdout_text
               ELSE /\ stdout_text' = [stdout_text EXCEPT ![a] = JoinLines(e.stdout)]
                    /\ AgentGoto(a, AfterExecution(e))
                    /\ UNCHANGED results
    /\ UNCHANGED <<sandbox, messages, response, tool_use>>
    /\ UNCHANGED <<vizVars, sideVars>>
    /\ UNCHANGED mainRest

\* the JSON extraction, then messages.append(tool_result)
AgentParse(a) ==
    /\ Scheduled(a) /\ pc[a] = "parse"
    /\ results' = [results EXCEPT ![a] =
                     ExtractResults(a, stdout_text[a], execution[a].results)]
    /\ messages' = [messages EXCEPT ![a] =
                      Append(@, [role |-> "user",
                                 content |-> <<[type |-> "tool_result",
                                                id |-> tool_use[a].id,
                                                text |-> stdout_text[a]]>>])]
    /\ AgentGoto(a, "interpret")
    /\ UNCHANGED <<sandbox, response, tool_use, execution, stdout_text, calls>>
    /\ UNCHANGED <<vizVars, sideVars>>
    /\ UNCHANGED mainRest

\* final_response = client.messages.create(...);
\* if final_response.content: results["interpretation"] = final_response.content[0].text
AgentInterpret(a) ==
    /\ Scheduled(a) /\ pc[a] = "interpret"
    /\ Call(a, "interpret")
    /\ \/ /\ AgentExcept(a, "InterpretError")
          /\ UNCHANGED results
       \/ \E c \in InterpContents :
            IF Len(c) = 0
            THEN /\ AgentGoto(a, "kill")
                 /\ UNCHANGED results
            ELSE IF c[1].type = "text"
            THEN /\ results' = [results EXCEPT ![a] = Put(@, "interpretation", c[1].text)]
                 /\ AgentGoto(a, "kill")
            ELSE /\ AgentExcept(a, "AttributeError")
                 /\ UNCHANGED results
    /\ UNCHANGED <<sandbox, messages, response, tool_use, execution, stdout_text>>
    /\ UNCHANGED <<vizVars, sideVars>>
    /\ UNCHANGED mainRest

\* sandbox.kill() [anomaly: sandbox.kill()()], then `return results`
AgentKill(a) ==
    /\ Scheduled(a) /\ pc[a] = "kill"
    /\ Call(a, "kill")
    /\ sandbox' = [sandbox EXCEPT ![SessionOf(a)] = "killed"]
    /\ IF KillResultCalled(a)
       THEN AgentExcept(a, "TypeError")
       ELSE AgentReturn(a, results[a])
    /\ UNCHANGED <<messages, response, tool_use, execution, stdout_text, results>>
    /\ UNCHANGED <<vizVars, sideVars>>
    /\ UNCHANGED mainRest

(***************************************************************************)
(* The local visualization agent: create_visualizations                    *)
(***************************************************************************)
Col(n, t) == [name |-> n, dtype |-> t]

\* pd.read_csv(csv_path): the columns of the table, in file order
DatasetCases ==
    { <<Col("categories", "object"), Col("total", "float64"),
        Col("order_date", "object"), Col("quantity", "int64"),
        Col("price", "float64"), Col("product_names", "object")>>,
      <<Col("x", "int64"), Col("y", "float64"), Col("label", "object")>>,
      <<Col("label", "object")>>,
      <<Col("x", "int64")>>,
      <<Col("order_date", "object"), Col("total", "float64")>> }

HasCol(d, n) == \E i \in DOMAIN d : d[i].name = n

\* df.select_dtypes(include=['int64', 'float64']).columns
NumericCols(d) == SelectSeq(d, LAMBDA c : c.dtype \in {"int64", "float64"})

\* df.select_dtypes(include=['object']).columns
CategoricalCols(d) == SelectSeq(d, LAMBDA c : c.dtype = "object")

\* fallback rules that draw without looking at how many columns there are
ChartBranchUnguarded(n, d) ==
    CASE n = 1 -> IF HasCol(d, "categories") /\ HasCol(d, "total") THEN "primary"
                  ELSE "fallback"
      [] n = 2 -> IF HasCol(d, "order_date") /\ HasCol(d, "total") THEN "primary"
                  ELSE "fallback"
      [] n = 3 -> IF HasCol(d, "quantity") /\ HasCol(d, "price") THEN "primary"
                  ELSE "fallback"
      [] OTHER -> IF HasCol(d, "product_names") /\ HasCol(d, "total") THEN "primary"
                  ELSE "fallback"

\* which rule chart n draws with: its named columns, its fallback, or nothing
ChartBranch(n, d) ==
    CASE n = 1 -> IF HasCol(d, "categories") /\ HasCol(d, "total") THEN "primary"
                  ELSE IF Len(NumericCols(d)) > 0 THEN "fallback" ELSE "blank"
      [] n = 2 -> IF HasCol(d, "order_date") /\ HasCol(d, "total") THEN "primary"
                  ELSE IF Len(NumericCols(d)) > 0 THEN "fallback" ELSE "blank"
      [] n = 3 -> IF HasCol(d, "quantity") /\ HasCol(d, "price") THEN "primary"
                  ELSE IF Len(NumericCols(d)) >= 2 THEN "fallback" ELSE "blank"
      [] OTHER -> IF HasCol(d, "product_names") /\ HasCol(d, "total") THEN "primary"
                  ELSE IF Len(CategoricalCols(d)) > 0 THEN "fallback" ELSE "blank"

\* chart 2's primary rule: df['order_date'] = pd.to_datetime(df['order_date'], ...)
ChartMutate(n, d) ==
    IF n = 2 /\ ChartBranch(2, d) = "primary"
    THEN [i \in DOMAIN d |-> IF d[i].name = "order_date"
                             THEN Col("order_date", "datetime64") ELSE d[i]]
    ELSE d

\* os.path.join(output_dir, 'chart_<n>.png') with output_dir = "results"
ChartPath(n) ==
    CASE n = 1 -> "results/chart_1.png"
      [] n = 2 -> "results/chart_2.png"
      [] n = 3 -> "results/chart_3.png"
      [] OTHER -> "results/chart_4.png"

ChartPc(n) ==
    CASE n = 1 -> "chart1" [] n = 2 -> "chart2" [] n = 3 -> "chart3"
      [] n = 4 -> "chart4" [] OTHER -> "return"

\* a function that gives up on the remaining charts when one block fails
AfterChartAbort(n, outcome) == IF outcome = "ok" THEN ChartPc(n + 1) ELSE "return"

\* each block has its own `except Exception`: the next block follows whatever
\* the outcome of this one
AfterChart(n, outcome) == ChartPc(n + 1)

\* the dict of the outer `except Exception as e` clause
VizErrorResult(msg) == ("error" :> msg) @@ ("charts" :> << >>)

\* return {"charts": charts, "count": len(charts), "chart_paths": charts}
VizResult(cs) == ("charts" :> cs) @@ ("count" :> Len(cs)) @@ ("chart_paths" :> cs)

VizExcept(kind) ==
    /\ vpc' = "done"
    /\ vexc' = kind
    /\ vret' = VizErrorResult(<<kind>>)
    /\ UNCHANGED vraised

VizStart ==
    /\ mpc = "phase2" /\ vpc = "idle"
    /\ vpc' = "makedirs"
    /\ UNCHANGED <<df, charts, vret, vexc, vraised, chartlog>>
    /\ UNCHANGED <<agentVars, mainVars, sideVars>>

\* os.makedirs(output_dir, exist_ok=True)
VizMakedirs ==
    /\ vpc = "makedirs"
    /\ \/ /\ vpc' = "read_csv"
          /\ files' = files \cup {"results/"}
          /\ UNCHANGED <<vret, vexc, vraised>>
       \/ /\ VizExcept("OSError")
          /\ UNCHANGED files
    /\ UNCHANGED <<df, charts, chartlog>>
    /\ UNCHANGED <<agentVars, sideVars, ready>>
    /\ UNCHANGED <<mpc, datasetExists, stats_results, anomaly_results, viz_results,
                   chart_paths, synthArgs, insights, trace, coord, html_report, json_dump>>

\* df = pd.read_csv(csv_path); charts = []
VizReadCsv ==
    /\ vpc = "read_csv"
    /\ \/ \E d \in DatasetCases :
            /\ df' = d
            /\ charts' = << >>
            /\ vpc' = "chart1"
            /\ UNCHANGED <<vret, vexc, vraised>>
       \/ \E kind \in {"FileNotFoundError", "ParserError"} :
            /\ VizExcept(kind)
            /\ UNCHANGED <<df, charts>>
    /\ UNCHANGED chartlog
    /\ UNCHANGED <<agentVars, mainVars, sideVars>>

\* one `try: ... except Exception` chart block.  "early": plt.figure raises;
\* "late": the block raises after its rule has run (plotting or savefig)
VizChart(n) ==
    /\ vpc = ChartPc(n)
    /\ \E outcome \in {"ok", "early", "late"} :
         /\ df' = IF outcome = "early" THEN df ELSE ChartMutate(n, df)
         /\ charts' = IF outcome = "ok" THEN Append(charts, ChartPath(n)) ELSE charts
         /\ files' = IF outcome = "ok" THEN files \cup {ChartPath(n)} ELSE files
         /\ chartlog' = Append(chartlog, [n |-> n, branch |-> ChartBranch(n, df),
                                          saved |-> outcome = "ok"])
         /\ vpc' = AfterChart(n, outcome)
    /\ UNCHANGED <<vret, vexc, vraised>>
    /\ UNCHANGED <<agentVars, sideVars, ready>>
    /\ UNCHANGED <<mpc, datasetExists, stats_results, anomaly_results, viz_results,
                   chart_paths, synthArgs, insights, trace, coord, html_report, json_dump>>

VizReturn ==
    /\ vpc = "return"
    /\ vret' = VizResult(charts)
    /\ vpc' = "done"
    /\ UNCHANGED <<df, charts, vexc, vraised, chartlog>>
    /\ UNCHANGED <<agentVars, mainVars, sideVars>>

(***************************************************************************)
(* The report: generate_html_report and its helpers (main.py).             *)
(* The insights are a sequence of lines; a line is a sequence of tokens,   *)
(* where "#", "*", ":" and " " are single characters and any other token   *)
(* is a word made of other characters.                                     *)
(***************************************************************************)
SP == " "
H2 == <<"#", "#", SP>>
H3 == <<"#", "#", "#", SP>>
H3Bare == <<"#", "#", "#">>
BOLD == <<"*", "*">>

\* str.startswith(pat)
StartsWith(line, pat) == Len(line) >= Len(pat) /\ SubSeq(line, 1, Len(pat)) = pat

RECURSIVE Remove(_, _)
\* str.replace(pat, ''): the occurrences of pat, left to right, not overlapping
Remove(line, pat) ==
    IF line = << >> THEN << >>
    ELSE IF StartsWith(line, pat)
         THEN Remove(SubSeq(line, Len(pat) + 1, Len(line)), pat)
         ELSE <<Head(line)>> \o Remove(Tail(line), pat)

RECURSIVE LStrip(_)
LStrip(line) ==
    IF line # << >> /\ Head(line) = SP THEN LStrip(Tail(line)) ELSE line

RECURSIVE RStrip(_)
RStrip(line) ==
    IF line # << >> /\ line[Len(line)] = SP
    THEN RStrip(SubSeq(line, 1, Len(line) - 1)) ELSE line

\* str.strip()
Strip(line) == RStrip(LStrip(line))

\* the words with an upper-case letter, and their lower-case form
LowerOf == [w \in {"Summary", "Risks", "Growth"} |->
              IF w = "Summary" THEN "summary"
              ELSE IF w = "Risks" THEN "risks" ELSE "growth"]

\* str.lower()
Lower(line) == [i \in DOMAIN line |->
                  IF line[i] \in DOMAIN LowerOf THEN LowerOf[line[i]] ELSE line[i]]

\* str.replace(' ', '-')
Dashed(line) == [i \in DOMAIN line |-> IF line[i] = SP THEN "-" ELSE line[i]]

\* the position of a section name among the keys of `sections`, 0 if absent
SectionIndex(sections, name) ==
    IF \E i \in DOMAIN sections : sections[i].name = name
    THEN CHOOSE i \in DOMAIN sections : sections[i].name = name
    ELSE 0

\* sections[name] = []: a new key goes last, an old key keeps its place
SetSection(sections, name) ==
    IF SectionIndex(sections, name) = 0
    THEN Append(sections, [name |-> name, content |-> << >>])
    ELSE [sections EXCEPT ![SectionIndex(sections, name)].content = << >>]

\* sections[name].append(line)
AppendLine(sections, name, line) ==
    [sections EXCEPT ![SectionIndex(sections, name)].content = Append(@, line)]

NoSection == [set |-> FALSE, name |-> << >>]

RECURSIVE ParseLines(_, _, _)
\* the loop of parse_insights over insights.split('\n'); `cur` is
\* current_section, which is falsy when None and when the empty string
ParseLines(lines, cur, sections) ==
    IF lines = << >> THEN sections
    ELSE LET line == Head(lines) IN
         IF StartsWith(line, H2)
         THEN LET name == Strip(Remove(line, H2)) IN
              ParseLines(Tail(lines), [set |-> TRUE, name |-> name],
                         SetSection(sections, name))
         ELSE IF cur.set /\ cur.name # << >> /\ Strip(line) # << >>
              THEN ParseLines(Tail(lines), cur,
                              AppendLine(sections, cur.name, Strip(line)))
              ELSE ParseLines(Tail(lines), cur, sections)

\* parse_insights(insights)
parse_insights(ins) == ParseLines(ins, NoSection, << >>)

\* the position of the first ":" of a line, 0 if there is none
FirstColon(line) ==
    IF \E i \in DOMAIN line : line[i] = ":"
    THEN CHOOSE i \in DOMAIN line :
            line[i] = ":" /\ \A j \in 1..(i - 1) : line[j] # ":"
    ELSE 0

\* the element build_insights_html emits for one content line
LineHtml(line) ==
    IF StartsWith(line, H3)
    THEN [tag |-> "h4", title |-> Strip(Remove(line, H3)), text |-> << >>]
    ELSE IF StartsWith(line, BOLD) /\ FirstColon(line) > 0
    THEN [tag |-> "finding",
          title |-> Strip(Remove(Remove(SubSeq(line, 1, FirstColon(line) - 1),
                                        BOLD), H3Bare)),
          text |-> Strip(SubSeq(line, FirstColon(line) + 1, Len(line)))]
    ELSE [tag |-> "p", title |-> << >>, text |-> line]

\* section_name.lower().replace(' ', '-').replace('**', '')
SectionId(name) == Remove(Dashed(Lower(name)), BOLD)

RECURSIVE build_insights_html(_)
\* build_insights_html(sections): a section without content is left out
build_insights_html(sections) ==
    IF sections = << >> THEN << >>
    ELSE LET sec == Head(sections) IN
         (IF sec.content = << >> THEN << >>
          ELSE << [id |-> SectionId(sec.name), name |-> sec.name,
                   body |-> [i \in DOMAIN sec.content |-> LineHtml(sec.content[i])]] >>)
         \o build_insights_html(Tail(sections))

\* format_statistics(stats): the three fixed cards when there is raw output
format_statistics(stats) ==
    IF HasKey(stats, "raw_output")
    THEN <<"Total Records", "Data Columns", "Quality">>
    ELSE << >>

\* the values of total_issues that are numbers, and the number each stands for
NumberOf == [v \in {<<"0">>, <<"3">>, <<"12">>} |->
               IF v = <<"0">> THEN 0 ELSE IF v = <<"3">> THEN 3 ELSE 12]

IsNumber(v) == v \in DOMAIN NumberOf

\* max(50, 100 - (issues * 5))
QualityScore(issues) == IF 100 - (issues * 5) > 50 THEN 100 - (issues * 5) ELSE 50

DefaultQuality == 85

\* a format_anomalies that reads anomalies['total_issues'] without the
\* membership test: KeyError when the key is absent
format_anomalies_unguarded(anomalies) ==
    IF ~HasKey(anomalies, "total_issues") \/ ~IsNumber(anomalies["total_issues"])
    THEN [raised |-> TRUE, quality_score |-> DefaultQuality, issues_card |-> FALSE]
    ELSE [raised |-> FALSE,
          quality_score |-> QualityScore(NumberOf[anomalies["total_issues"]]),
          issues_card |-> NumberOf[anomalies["total_issues"]] > 0]

\* format_anomalies(anomalies): 100 - (issues * 5) raises TypeError unless
\* total_issues is a number
format_anomalies(anomalies) ==
    IF ~HasKey(anomalies, "total_issues")
    THEN [raised |-> FALSE, quality_score |-> DefaultQuality, issues_card |-> FALSE]
    ELSE IF ~IsNumber(anomalies["total_issues"])
    THEN [raised |-> TRUE, quality_score |-> DefaultQuality, issues_card |-> FALSE]
    ELSE [raised |-> FALSE,
          quality_score |-> QualityScore(NumberOf[anomalies["total_issues"]]),
          issues_card |-> NumberOf[anomalies["total_issues"]] > 0]

\* build_kpi_cards(insights, stats, anomalies): the labels of the cards
build_kpi_cards(stats, anomalies) ==
    (IF HasKey(stats, "raw_output") /\ \E i \in DOMAIN stats["raw_output"] :
                                           stats["raw_output"][i] = "1000"
     THEN <<"Data Points">> ELSE << >>)
    \o (IF HasKey(stats, "raw_output") /\ \E i \in DOMAIN stats["raw_output"] :
                                           stats["raw_output"][i] = "shape:"
        THEN <<"Columns">> ELSE << >>)
    \o (IF HasKey(anomalies, "total_issues") THEN <<"Data Issues">> ELSE << >>)
    \o <<"Analysis Status", "Insights">>

\* os.path.relpath(chart_path, "results") for the paths the charts are saved under
RelPath(path) ==
    IF path = "results/chart_1.png" THEN "chart_1.png"
    ELSE IF path = "results/chart_2.png" THEN "chart_2.png"
    ELSE IF path = "results/chart_3.png" THEN "chart_3.png"
    ELSE IF path = "results/chart_4.png" THEN "chart_4.png"
    ELSE path

NoDocument == [raised |-> FALSE, written |-> FALSE, charts_html |-> << >>,
               insights_html |-> << >>, stats_html |-> << >>,
               quality_score |-> 0, issues_card |-> FALSE, kpis |-> << >>]

\* generate_html_report(insights, charts, stats, anomalies): the document, or
\* the exception of format_anomalies
generate_html_report(ins, chs, stats, anomalies) ==
    IF format_anomalies(anomalies).raised
    THEN [NoDocument EXCEPT !.raised = TRUE]
    ELSE [raised |-> FALSE, written |-> TRUE,
          charts_html |-> [i \in DOMAIN chs |-> RelPath(chs[i])],
          insights_html |-> build_insights_html(parse_insights(ins)),
          stats_html |-> format_statistics(stats),
          quality_score |-> format_anomalies(anomalies).quality_score,
          issues_card |-> format_anomalies(anomalies).issues_card,
          kpis |-> build_kpi_cards(stats, anomalies)]

(***************************************************************************)
(* The coordinator and the orchestrator: synthesize_insights, main         *)
(***************************************************************************)
\* the prose the generator can answer with, as lines
ReportTexts == { << <<"#", "#", SP, "Summary">>, <<"Growth", SP, "up">> >>,
                 << <<"No", SP, "headings">> >> }

\* a text block of the coordinator's response
ReportBlock(t) == [type |-> "text", id |-> "none", text |-> t]

\* a block of the coordinator's response that is not text
OtherBlock == [type |-> "tool_use", id |-> "tu9", text |-> << >>]

\* response.content, as the generator can answer the synthesis request
SynthContents ==
    { << >>, <<OtherBlock>> }
    \cup { <<ReportBlock(t)>> : t \in ReportTexts }
    \cup { <<ReportBlock(c[1]), ReportBlock(c[2])>> :
              c \in { d \in ReportTexts \X ReportTexts : d[1] # d[2] } }

\* what the environment does to one call of synthesize_insights: the prompt
\* cannot be built, the request raises, or the generator answers
SynthOutcomes ==
    { [kind |-> k, content |-> << >>] : k \in {"PromptError", "GeneratorError"} }
    \cup { [kind |-> "response", content |-> c] : c \in SynthContents }

\* f"Error generating insights: {str(e)}", one line
SynthErrorText(kind) ==
    << <<"Error", SP, "generating", SP, "insights", ":", SP, kind>> >>

\* response.content[-1].text
LastText(content) == content[Len(content)].text

\* response.content[0].text
FirstText(content) == content[1].text

NoCoord == [requests |-> 0, exc |-> "none", content |-> << >>, raised |-> FALSE,
            insights |-> << >>]

\* except Exception as e: return f"Error generating insights: {str(e)}"
SynthExcept(kind, requests, content) ==
    [requests |-> requests, exc |-> kind, content |-> content, raised |-> FALSE,
     insights |-> SynthErrorText(kind)]

\* synthesize_insights(stats_results, viz_results, anomaly_results) under one
\* outcome: the requests made, the exception caught and the string returned
synthesize_insights(o) ==
    IF o.kind = "PromptError" THEN SynthExcept("PromptError", 0, << >>)
    ELSE IF o.kind = "GeneratorError" THEN SynthExcept("GeneratorError", 1, << >>)
    ELSE IF o.content = << >> THEN SynthExcept("IndexError", 1, o.content)
    ELSE IF o.content[1].type # "text" THEN SynthExcept("AttributeError", 1, o.content)
    ELSE [requests |-> 1, exc |-> "none", content |-> o.content, raised |-> FALSE,
          insights |-> FirstText(o.content)]

\* dict.get(key, default)
Get(d, k, default) == IF k \in DOMAIN d THEN d[k] ELSE default

\* a wait that returns as soon as one awaitable has finished
GatherFirstCompleted == \E a \in Agents : pc[a] = "done"

\* asyncio.gather returns once every awaitable has finished
GatherSettled == \A a \in Agents : pc[a] = "done"

\* a check that reports the missing dataset and goes on
AfterCheckNoReturn(exists) == "gather"

\* if not os.path.exists(csv_path): ... return
AfterCheck(exists) == IF exists THEN "gather" ELSE "aborted"

\* a call that would hand back control once the visualization had started
VizStarted == vpc # "idle"

\* viz_results = create_visualizations(csv_path) is a plain call: main goes on
\* when it has returned
VizReturned == vpc = "done"

NoJson == [written |-> FALSE, statistics |-> EmptyDict,
           visualizations |-> [count |-> 0, chart_paths |-> << >>],
           anomalies |-> EmptyDict, insights |-> << >>]

\* results_json = {"timestamp": ..., "statistics": stats_results,
\* "visualizations": {"count": len(chart_paths), "chart_paths": chart_paths},
\* "anomalies": anomaly_results, "insights": insights}
results_json(stats, paths, anomalies, ins) ==
    [written |-> TRUE, statistics |-> stats,
     visualizations |-> [count |-> Len(paths), chart_paths |-> paths],
     anomalies |-> anomalies, insights |-> ins]

\* the index document written whatever the charts
DashboardAlways(paths) == TRUE

\* if chart_paths:
DashboardDue(paths) == Len(paths) > 0

MainCheck ==
    /\ mpc = "start"
    /\ mpc' = AfterCheck(datasetExists)
    /\ UNCHANGED <<datasetExists, ready, stats_results, anomaly_results, viz_results,
                   chart_paths, synthArgs, insights, files, trace, coord, html_report, json_dump>>
    /\ UNCHANGED <<agentVars, vizVars, sideVars>>

\* asyncio.gather(run_statistical_analysis(csv_path), run_anomaly_detection(csv_path)):
\* the two coroutines become tasks, queued in argument order
MainGather ==
    /\ mpc = "gather"
    /\ ready' = <<"stat", "anom">>
    /\ mpc' = "await"
    /\ UNCHANGED <<datasetExists, stats_results, anomaly_results, viz_results,
                   chart_paths, synthArgs, insights, files, trace, coord, html_report, json_dump>>
    /\ UNCHANGED <<agentVars, vizVars, sideVars>>

\* stats_results, anomaly_results = await asyncio.gather(...): the two tasks
\* are finished and their frames (the agents' locals) are released
MainJoin ==
    /\ mpc = "await"
    /\ GatherSettled
    /\ stats_results' = ret["stat"]
    /\ anomaly_results' = ret["anom"]
    /\ mpc' = "phase2"
    /\ trace' = Append(trace, "agents")
    /\ messages' = [a \in Agents |-> << >>]
    /\ response' = [a \in Agents |-> NoResponse]
    /\ tool_use' = [a \in Agents |-> NoBlock]
    /\ execution' = [a \in Agents |-> NoExecution]
    /\ stdout_text' = [a \in Agents |-> << >>]
    /\ results' = [a \in Agents |-> EmptyDict]
    /\ UNCHANGED <<pc, sandbox, ret, exc, raised, calls>>
    /\ UNCHANGED <<datasetExists, ready, viz_results, chart_paths, synthArgs,
                   insights, files, coord, html_report, json_dump>>
    /\ UNCHANGED <<vizVars, sideVars>>

\* viz_results = create_visualizations(csv_path);
\* chart_paths = viz_results.get("charts", [])
MainVizDone ==
    /\ mpc = "phase2" /\ VizReturned
    /\ viz_results' = vret
    /\ chart_paths' = Get(vret, "charts", << >>)
    /\ mpc' = "phase3"
    /\ trace' = Append(trace, "viz")
    /\ UNCHANGED <<datasetExists, ready, stats_results, anomaly_results, synthArgs,
                   insights, files, coord, html_report, json_dump>>
    /\ UNCHANGED <<agentVars, vizVars, sideVars>>

\* insights = await synthesize_insights(stats_results, viz_results, anomaly_results):
\* the coroutine has no suspension point of its own, it runs in one step
MainSynthesize ==
    /\ mpc = "phase3"
    /\ synthArgs' = Append(synthArgs, [stats |-> stats_results, viz |-> viz_results,
                                       anomalies |-> anomaly_results])
    /\ \E o \in SynthOutcomes :
          /\ coord' = synthesize_insights(o)
          /\ insights' = synthesize_insights(o).insights
          /\ mpc' = IF synthesize_insights(o).raised THEN "crashed" ELSE "phase4"
    /\ trace' = Append(trace, "synth")
    /\ UNCHANGED <<datasetExists, ready, stats_results, anomaly_results, viz_results,
                   chart_paths, files, html_report, json_dump>>
    /\ UNCHANGED <<agentVars, vizVars, sideVars>>

\* os.makedirs("results", exist_ok=True); if chart_paths: create_visualization_html(...)
MainDashboard ==
    /\ mpc = "phase4"
    /\ files' = files \cup {"results/"}
                  \cup (IF DashboardDue(chart_paths)
                        THEN {"results/visualizations.html"} ELSE {})
    /\ mpc' = "report"
    /\ UNCHANGED <<datasetExists, ready, stats_results, anomaly_results, viz_results,
                   chart_paths, synthArgs, insights, trace, coord, html_report, json_dump>>
    /\ UNCHANGED <<agentVars, vizVars, sideVars>>

\* html_report = generate_html_report(insights, chart_paths, stats_results,
\* anomaly_results); with open(report_path, "w") as f: f.write(html_report)
MainWriteReport ==
    /\ mpc = "report"
    /\ html_report' = generate_html_report(insights, chart_paths, stats_results,
                                           anomaly_results)
    /\ IF html_report'.raised
       THEN /\ mpc' = "crashed"
            /\ UNCHANGED <<files, trace>>
       ELSE /\ mpc' = "json"
            /\ files' = files \cup {"results/analysis_report.html"}
            /\ trace' = Append(trace, "report")
    /\ UNCHANGED <<datasetExists, ready, stats_results, anomaly_results, viz_results,
                   chart_paths, synthArgs, insights, coord, json_dump>>
    /\ UNCHANGED <<agentVars, vizVars, sideVars>>

\* json.dump(results_json, f, indent=2, default=str)
MainWriteJson ==
    /\ mpc = "json"
    /\ files' = files \cup {"results/raw_results.json"}
    /\ mpc' = "done"
    /\ trace' = Append(trace, "json")
    /\ json_dump' = results_json(stats_results, chart_paths, anomaly_results, insights)
    /\ UNCHANGED <<datasetExists, ready, stats_results, anomaly_results, viz_results,
                   chart_paths, synthArgs, insights, coord, html_report>>
    /\ UNCHANGED <<agentVars, vizVars, sideVars>>

(***************************************************************************)
(* Specifications                                                          *)
(***************************************************************************)
NoParse == [done |-> FALSE, agent |-> "none", span |-> NoSpan, results |-> EmptyDict]

InitProgram ==
    /\ pc = [a \in Agents |-> "init"]
    /\ sandbox = [a \in Agents |-> "none"]
    /\ messages = [a \in Agents |-> << >>]
    /\ response = [a \in Agents |-> NoResponse]
    /\ tool_use = [a \in Agents |-> NoBlock]
    /\ execution = [a \in Agents |-> NoExecution]
    /\ stdout_text = [a \in Agents |-> << >>]
    /\ results = [a \in Agents |-> EmptyDict]
    /\ ret = [a \in Agents |-> EmptyDict]
    /\ exc = [a \in Agents |-> "none"]
    /\ raised = [a \in Agents |-> FALSE]
    /\ calls = [a \in Agents |-> << >>]
    /\ vpc = "idle" /\ df = << >> /\ charts = << >> /\ vret = EmptyDict
    /\ vexc = "none" /\ vraised = FALSE /\ chartlog = << >>
    /\ mpc = "start" /\ ready = << >>
    /\ stats_results = EmptyDict /\ anomaly_results = EmptyDict
    /\ viz_results = EmptyDict /\ chart_paths = << >>
    /\ synthArgs = << >> /\ insights = << >> /\ files = {}
    /\ trace = << >> /\ coord = NoCoord /\ html_report = NoDocument
    /\ json_dump = NoJson

ParseIdle == p_text = << >> /\ p_out = NoParse

NoRenderIn == [stats |-> EmptyDict, viz |-> EmptyDict, anomalies |-> EmptyDict]

\* the arguments main passes to generate_html_report
NoReportArgs == [insights |-> << >>, charts |-> << >>, stats |-> EmptyDict,
                 anomalies |-> EmptyDict]

NoRenderOut == [stage |-> "idle", coord |-> NoCoord, report |-> NoDocument,
                generated |-> 0, args |-> NoReportArgs,
                again |-> NoDocument, generated_again |-> 0]

RenderIdle == r_in = NoRenderIn /\ r_out = NoRenderOut

NoCode == << >>

RemoteVizIdle ==
    /\ rv_pc = "idle" /\ rv_requests = << >> /\ rv_checks = << >>
    /\ rv_code = NoCode /\ rv_ran = NoCode /\ rv_sandbox = "none"

Init ==
    /\ InitProgram
    /\ datasetExists \in BOOLEAN
    /\ ParseIdle /\ RenderIdle /\ RemoteVizIdle

Next ==
    \/ \E a \in Agents : AgentStart(a)
    \/ \E a \in Agents : AgentCreate(a)
    \/ \E a \in Agents : AgentUpload(a)
    \/ \E a \in Agents : AgentGenerate(a)
    \/ \E a \in Agents : AgentExecute(a)
    \/ \E a \in Agents : AgentParse(a)
    \/ \E a \in Agents : AgentInterpret(a)
    \/ \E a \in Agents : AgentKill(a)
    \/ VizStart \/ VizMakedirs \/ VizReadCsv
    \/ \E n \in 1..4 : VizChart(n)
    \/ VizReturn
    \/ MainCheck \/ MainGather \/ MainJoin \/ MainVizDone \/ MainSynthesize
    \/ MainDashboard \/ MainWriteReport \/ MainWriteJson

Spec == Init /\ [][Next]_vars

\* ---- the JSON extraction applied to every short stdout text ----
MaxClock == 1

MaxTextLen == 4

Texts == UNION { [1..n -> Alphabet] : n \in 0..MaxTextLen }
         \cup { JoinLines(so) : so \in StdoutSamples }

InitParse ==
    /\ InitProgram
    /\ datasetExists = TRUE
    /\ p_text \in Texts
    /\ p_out = NoParse
    /\ RenderIdle /\ RemoteVizIdle

\* the extraction block of either agent, run on p_text
ExtractStep(a) ==
    /\ ~p_out.done
    /\ p_out' = [done |-> TRUE, agent |-> a, span |-> JsonSpan(p_text),
                 results |-> ExtractResults(a, p_text, << >>)]
    /\ UNCHANGED <<p_text, agentVars, vizVars, mainVars, renderVars, remoteVizVars>>

NextParse == \E a \in Agents : ExtractStep(a)

SpecParse == InitParse /\ [][NextParse]_vars

\* ---- the coordinator and the report applied to every shape of results ----
ErrorMessages == { <<"boom">> }

\* what run_statistical_analysis can hand to main
StatsShapes ==
    { EmptyDict, Put(EmptyDict, "a", <<"1">>),
      Put(EmptyDict, "raw_output", <<"shape:", "1000">>),
      Put(EmptyDict, "raw_output", << >>) }
    \cup { ErrorResult("stat", m) : m \in ErrorMessages }
    \cup { ExecErrorResult("stat", e) : e \in { x \in Executions : x.error } }

\* what run_anomaly_detection can hand to main; total_issues is a number, or a
\* string where the generated program printed one
AnomalyShapes ==
    { EmptyDict, Put(EmptyDict, "raw_output", <<"shape:", "1000">>) }
    \cup { Put(EmptyDict, "total_issues", v) : v \in (DOMAIN NumberOf) \cup { <<"many">> } }
    \cup { ErrorResult("anom", m) : m \in ErrorMessages }

\* what create_visualizations can hand to main
VizShapes ==
    { EmptyDict, VizResult(<< >>), VizResult(<<ChartPath(1), ChartPath(3)>>) }
    \cup { VizErrorResult(m) : m \in ErrorMessages }

InitRender ==
    /\ InitProgram
    /\ datasetExists = TRUE
    /\ ParseIdle /\ RemoteVizIdle
    /\ r_in \in [stats : StatsShapes, viz : VizShapes, anomalies : AnomalyShapes]
    /\ r_out = [NoRenderOut EXCEPT !.stage = "in"]

\* synthesize_insights(stats, viz, anomalies)
RenderSynthesize ==
    /\ r_out.stage = "in"
    /\ \E o \in SynthOutcomes :
          r_out' = [r_out EXCEPT !.stage = "synth", !.coord = synthesize_insights(o)]
    /\ UNCHANGED <<r_in, agentVars, vizVars, mainVars, parseVars, remoteVizVars>>

\* the wall clock of the report header, in minutes
Clock == 0 .. MaxClock

\* the arguments as a call of generate_html_report leaves them
ReportArgsDrained(args) == [args EXCEPT !.charts = << >>]

ReportArgsAfter(args) == args

ReportArgs ==
    [insights |-> r_out.coord.insights, charts |-> Get(r_in.viz, "charts", << >>),
     stats |-> r_in.stats, anomalies |-> r_in.anomalies]

\* generate_html_report(insights, viz.get("charts", []), stats, anomalies)
RenderReport ==
    /\ r_out.stage = "synth"
    /\ \E now \in Clock :
          r_out' = [r_out EXCEPT
                     !.stage = "report",
                     !.generated = now,
                     !.args = ReportArgsAfter(ReportArgs),
                     !.report = generate_html_report(r_out.coord.insights,
                                                     Get(r_in.viz, "charts", << >>),
                                                     r_in.stats, r_in.anomalies)]
    /\ UNCHANGED <<r_in, agentVars, vizVars, mainVars, parseVars, remoteVizVars>>

\* a second call of generate_html_report with the same argument objects
RenderAgain ==
    /\ r_out.stage = "report"
    /\ \E now \in Clock :
          /\ now >= r_out.generated
          /\ r_out' = [r_out EXCEPT
                         !.stage = "again",
                         !.generated_again = now,
                         !.args = ReportArgsAfter(r_out.args),
                         !.again = generate_html_report(r_out.args.insights,
                                                        r_out.args.charts,
                                                        r_out.args.stats,
                                                        r_out.args.anomalies)]
    /\ UNCHANGED <<r_in, agentVars, vizVars, mainVars, parseVars, remoteVizVars>>

NextRender == RenderSynthesize \/ RenderReport \/ RenderAgain

SpecRender == InitRender /\ [][NextRender]_vars

\* ---- the remote visualization agent: generate, validate, retry once ----
MaxCodeLen == 5

MinShows == 4

PlotKeywords == {"plt.plot", "plt.bar", "plt.scatter", "sns.heatmap", "plt.hist"}

ShowMarker == "plt.show()"

\* the statements a generated program is made of
CodeTokens == {"plt.plot", ShowMarker, "import"}

GeneratedCodes == UNION { [1..n -> CodeTokens] : n \in 0..MaxCodeLen }

\* any(keyword in code for keyword in [...])
HasPlotting(code) == \E i \in DOMAIN code : code[i] \in PlotKeywords

\* code.count("plt.show()")
ShowCount(code) == Cardinality({ i \in DOMAIN code : code[i] = ShowMarker })

\* the verdict of the first test: plotting commands alone
ValidatesPlottingOnly(code) == HasPlotting(code)

\* if has_plotting and show_count >= 4
Validates(code) == HasPlotting(code) /\ ShowCount(code) >= MinShows

\* a policy that retries as long as the code fails the validation
RetryAlways(requests) == TRUE

\* "issue exactly one retry": a retry is due only after the first request
RetryAllowed(requests) == Len(requests) < 2

InitRemoteViz ==
    /\ InitProgram
    /\ datasetExists = TRUE
    /\ ParseIdle /\ RenderIdle
    /\ rv_pc = "generate" /\ rv_requests = << >> /\ rv_checks = << >>
    /\ rv_code = NoCode /\ rv_ran = NoCode /\ rv_sandbox = "none"

\* the first request, with the ordinary prompt
RemoteVizGenerate ==
    /\ rv_pc = "generate"
    /\ rv_requests' = Append(rv_requests, "initial")
    /\ \E code \in GeneratedCodes : rv_code' = code
    /\ rv_pc' = "validate"
    /\ UNCHANGED <<rv_checks, rv_ran, rv_sandbox>>
    /\ UNCHANGED <<agentVars, vizVars, mainVars, parseVars, renderVars>>

\* the generated program text is inspected for evidence of plotting
RemoteVizValidate ==
    /\ rv_pc = "validate"
    /\ rv_checks' = Append(rv_checks, Validates(rv_code))
    /\ rv_pc' = IF ~Validates(rv_code) /\ RetryAllowed(rv_requests)
                THEN "retry" ELSE "execute"
    /\ UNCHANGED <<rv_requests, rv_code, rv_ran, rv_sandbox>>
    /\ UNCHANGED <<agentVars, vizVars, mainVars, parseVars, renderVars>>

\* the retry, with the stricter, example-laden prompt
RemoteVizRetry ==
    /\ rv_pc = "retry"
    /\ rv_requests' = Append(rv_requests, "strict")
    /\ \E code \in GeneratedCodes : rv_code' = code
    /\ rv_pc' = "validate"
    /\ UNCHANGED <<rv_checks, rv_ran, rv_sandbox>>
    /\ UNCHANGED <<agentVars, vizVars, mainVars, parseVars, renderVars>>

\* the code in hand is run in the sandbox
RemoteVizExecute ==
    /\ rv_pc = "execute"
    /\ rv_ran' = rv_code
    /\ rv_pc' = "done"
    /\ UNCHANGED <<rv_requests, rv_checks, rv_code, rv_sandbox>>
    /\ UNCHANGED <<agentVars, vizVars, mainVars, parseVars, renderVars>>

NextRemoteViz ==
    RemoteVizGenerate \/ RemoteVizValidate \/ RemoteVizRetry \/ RemoteVizExecute

SpecRemoteViz == InitRemoteViz /\ [][NextRemoteViz]_vars

\* ---- the visualization test flow: test_visualization_generation ----
InitVizTest ==
    /\ InitProgram
    /\ datasetExists = TRUE
    /\ ParseIdle /\ RenderIdle
    /\ rv_pc = "create" /\ rv_requests = << >> /\ rv_checks = << >>
    /\ rv_code = NoCode /\ rv_ran = NoCode /\ rv_sandbox = "none"

\* an exception leaves the coroutine: nothing after it runs
VizTestRaise ==
    /\ rv_pc' = "raised"
    /\ UNCHANGED <<rv_requests, rv_checks, rv_code, rv_ran, rv_sandbox>>

\* sandbox = Sandbox.create()
VizTestCreate ==
    /\ rv_pc = "create"
    /\ \/ VizTestRaise
       \/ /\ rv_sandbox' = "live"
          /\ rv_pc' = "upload"
          /\ UNCHANGED <<rv_requests, rv_checks, rv_code, rv_ran>>
    /\ UNCHANGED <<agentVars, vizVars, mainVars, parseVars, renderVars>>

\* with open(csv_path, "rb") as f: sandbox.files.write("data.csv", f)
VizTestUpload ==
    /\ rv_pc = "upload"
    /\ \/ VizTestRaise
       \/ /\ rv_pc' = "request1"
          /\ UNCHANGED <<rv_requests, rv_checks, rv_code, rv_ran, rv_sandbox>>
    /\ UNCHANGED <<agentVars, vizVars, mainVars, parseVars, renderVars>>

\* test 1: the original prompt; the request raises, or the answer has no
\* tool call, or it carries a program, which is inspected and never run
VizTestRequest1 ==
    /\ rv_pc = "request1"
    /\ \/ VizTestRaise
       \/ /\ rv_requests' = Append(rv_requests, "original")
          /\ rv_pc' = "request2"
          /\ UNCHANGED <<rv_checks, rv_code, rv_ran, rv_sandbox>>
       \/ \E code \in GeneratedCodes :
            /\ rv_requests' = Append(rv_requests, "original")
            /\ rv_code' = code
            /\ rv_checks' = Append(rv_checks, ValidatesPlottingOnly(code))
            /\ rv_pc' = "request2"
            /\ UNCHANGED <<rv_ran, rv_sandbox>>
    /\ UNCHANGED <<agentVars, vizVars, mainVars, parseVars, renderVars>>

\* test 2: the improved prompt; `if has_plotting and show_count >= 4` decides
\* whether the code goes to the sandbox
VizTestRequest2 ==
    /\ rv_pc = "request2"
    /\ \/ VizTestRaise
       \/ /\ rv_requests' = Append(rv_requests, "improved")
          /\ rv_pc' = "kill"
          /\ UNCHANGED <<rv_checks, rv_code, rv_ran, rv_sandbox>>
       \/ \E code \in GeneratedCodes :
            /\ rv_requests' = Append(rv_requests, "improved")
            /\ rv_code' = code
            /\ rv_checks' = Append(rv_checks, Validates(code))
            /\ rv_pc' = IF Validates(code) THEN "execute" ELSE "kill"
            /\ UNCHANGED <<rv_ran, rv_sandbox>>
    /\ UNCHANGED <<agentVars, vizVars, mainVars, parseVars, renderVars>>

\* execution = sandbox.run_code(code); both `if execution.error` branches
\* only print
VizTestExecute ==
    /\ rv_pc = "execute"
    /\ rv_ran' = rv_code
    /\ \E outcome \in {"raise", "error", "ok"} :
          rv_pc' = IF outcome = "raise" THEN "raised" ELSE "kill"
    /\ UNCHANGED <<rv_requests, rv_checks, rv_code, rv_sandbox>>
    /\ UNCHANGED <<agentVars, vizVars, mainVars, parseVars, renderVars>>

\* sandbox.kill(), the last statement of the flow
VizTestKill ==
    /\ rv_pc = "kill"
    /\ rv_sandbox' = "killed"
    /\ rv_pc' = "done"
    /\ UNCHANGED <<rv_requests, rv_checks, rv_code, rv_ran>>
    /\ UNCHANGED <<agentVars, vizVars, mainVars, parseVars, renderVars>>

NextVizTest ==
    \/ VizTestCreate \/ VizTestUpload \/ VizTestRequest1 \/ VizTestRequest2
    \/ VizTestExecute \/ VizTestKill

SpecVizTest == InitVizTest /\ [][NextVizTest]_vars

(***************************************************************************)
(* Properties                                                              *)
(***************************************************************************)
\* the agent has returned and its locals can still be inspected
Returned(a) == pc[a] = "done" /\ mpc = "await"

InCalls(a, what) == \E i \in DOMAIN calls[a] : calls[a][i] = what

CountCalls(a, what) == Cardinality({ i \in DOMAIN calls[a] : calls[a][i] = what })

InterpretFailures == {"InterpretError", "AttributeError"}

\* the dict `got` carries every entry of the dict `want`
Carries(got, want) ==
    \A k \in DOMAIN want : k \in DOMAIN got /\ got[k] = want[k]

\* C1: whenever an agent has returned and Sandbox.create() had succeeded, the
\* sandbox has been destroyed (kill was called), on every exit path.
C1_SandboxKilledOnEveryExit ==
    \A a \in Agents :
        pc[a] = "done" /\ sandbox[a] # "none" => sandbox[a] = "killed"

\* C2: Phase 2 (and anything after it) starts only when both remote agents are
\* terminal, and the coordinator is handed exactly the dicts the agents returned,
\* whichever of them ended in error.
C2_FullJoin ==
    /\ (vpc # "idle" \/ mpc \in {"phase2", "phase3", "phase4", "report", "json", "done"})
          => \A a \in Agents : pc[a] = "done"
    /\ \A i \in DOMAIN synthArgs :
          /\ synthArgs[i].stats = ret["stat"]
          /\ synthArgs[i].anomalies = ret["anom"]

\* the statistical agent failed at sandbox creation; the anomaly agent still ran
\* up to its cleanup; both results reached the coordinator
C2_Witness ==
    /\ exc["stat"] = "SandboxError"
    /\ InCalls("anom", "run_code") /\ InCalls("anom", "kill")
    /\ Len(synthArgs) = 1
    /\ HasKey(synthArgs[1].stats, "error")
    /\ synthArgs[1].anomalies = ret["anom"]

\* C3: no exception leaves any of the three agents; an agent in which a call
\* failed (dataset, sandbox, upload, generator, ...) returns a dict with `error`.
C3_FailureYieldsErrorDict ==
    /\ \A a \in Agents :
          /\ ~raised[a]
          /\ (pc[a] = "done" /\ exc[a] # "none") => HasKey(ret[a], "error")
    /\ ~vraised
    /\ (vpc = "done" /\ vexc # "none") => HasKey(vret, "error")

C3_Witness ==
    /\ pc["stat"] = "done" /\ exc["stat"] = "FileNotFoundError"
    /\ pc["anom"] = "done" /\ exc["anom"] = "GeneratorError"
    /\ vpc = "done" /\ vexc = "FileNotFoundError"
    /\ HasKey(ret["stat"], "error") /\ HasKey(ret["anom"], "error")
    /\ HasKey(vret, "error")

\* stdout holds exactly one `{` and one `}` and the text between them, braces
\* included, is a JSON object
SingleFlatObject(text) ==
    LET lbs == { i \in DOMAIN text : text[i] = LB }
        rbs == { i \in DOMAIN text : text[i] = RB }
    IN  /\ Cardinality(lbs) = 1 /\ Cardinality(rbs) = 1
        /\ \E i \in lbs, j \in rbs : i < j /\ JsonLoads(SubSeq(text, i, j)).ok

FlatObject(text) ==
    LET i == CHOOSE i \in DOMAIN text : text[i] = LB
        j == CHOOSE j \in DOMAIN text : text[j] = RB
    IN  JsonLoads(SubSeq(text, i, j)).obj

\* C4: tool requested, execution without error, stdout a single flat JSON
\* object, interpretation obtained: the agent returns exactly the object's keys
\* plus `interpretation`, and no `error` key.
C4_SuccessReturnsParsedPlusInterpretation ==
    \A a \in Agents :
        ( /\ Returned(a)
          /\ response[a].stop_reason = "tool_use"
          /\ InCalls(a, "run_code") /\ ~execution[a].error
          /\ SingleFlatObject(stdout_text[a])
          /\ HasKey(results[a], "interpretation") )
        => /\ DOMAIN ret[a] = DOMAIN FlatObject(stdout_text[a]) \cup {"interpretation"}
           /\ Carries(ret[a], FlatObject(stdout_text[a]))
           /\ ~HasKey(ret[a], "error")

\* C5: when the interpretation request fails after a successful execution, the
\* agent still returns the parsed fields (or raw_output) and no `error` result.
C5_InterpretationFailureKeepsResults ==
    \A a \in Agents :
        (Returned(a) /\ exc[a] \in InterpretFailures)
        => /\ Carries(ret[a], results[a])
           /\ ~HasKey(ret[a], "error")

\* C6: a first response that is a plain message: no code is run, no further
\* generator request is made, and the result is empty, without `error`.
C6_PlainMessageEmptyResult ==
    \A a \in Agents :
        (Returned(a) /\ response[a].stop_reason \notin {"none", "tool_use"})
        => /\ ~InCalls(a, "run_code")
           /\ ~InCalls(a, "interpret") /\ CountCalls(a, "generate") = 1
           /\ DOMAIN ret[a] = {}

\* C7: an execution error is terminal and is what the agent reports: `error`
\* is the execution error's message, with no interpretation request and no
\* second execution.
C7_ExecutionErrorReported ==
    \A a \in Agents :
        (Returned(a) /\ execution[a].error)
        => /\ HasKey(ret[a], "error") /\ ret[a]["error"] = ExecErrorText
           /\ ~InCalls(a, "interpret")
           /\ CountCalls(a, "run_code") = 1

\* the dict has a collection field that is present and empty
HasEmptyCollection(d) == \E k \in DOMAIN d : d[k] \in {EmptyList, EmptyMap}

\* C8: after an execution error the result carries the agent's collection
\* fields as empty values (anomaly: outliers = [] and data_quality = {};
\* statistical: its statistics fields).
C8_EmptyDefaultsOnExecutionError ==
    \A a \in Agents :
        (Returned(a) /\ execution[a].error)
        => IF a = "anom"
           THEN /\ HasKey(ret[a], "outliers") /\ ret[a]["outliers"] = EmptyList
                /\ HasKey(ret[a], "data_quality") /\ ret[a]["data_quality"] = EmptyMap
           ELSE HasEmptyCollection(ret[a])

Max(S) == CHOOSE x \in S : \A y \in S : y <= x

Opens(text) == { i \in DOMAIN text : text[i] = LB }

Closes(text) == { i \in DOMAIN text : text[i] = RB }

\* noise {"a":1} more {"b":2} end
TieBreakExample == <<"n", LB, "a:1", RB, "n", LB, "b:2", RB, "n">>

OnlyB == Put(EmptyDict, "b", <<"2">>)

\* C9 as stated: the span handed to the JSON parser runs from the last `{` that
\* lies before the last `}` up to that `}`, so a `{` after the last `}` does not
\* stop an earlier span from being selected; the example parses to {"b": 2}.
C9_LastOpenBeforeLastClose ==
    p_out.done =>
        /\ LET before == IF Closes(p_text) = {} THEN {}
                         ELSE { i \in Opens(p_text) : i < Max(Closes(p_text)) }
           IN  before # {} =>
                  /\ p_out.span.tried
                  /\ p_out.span.str = SubSeq(p_text, Max(before), Max(Closes(p_text)))
        /\ (p_text = TieBreakExample => p_out.results = OnlyB)

\* C9 as amended: the span runs from the last `{` of the whole text to the
\* last `}`, and is tried only when that `{` precedes that `}`; otherwise
\* (also when a `{` follows the last `}`) nothing is parsed and the result is
\* the raw_output fallback.  The example parses to {"b": 2}.
C9_RightmostBraceSpan ==
    p_out.done =>
        /\ IF /\ Opens(p_text) # {} /\ Closes(p_text) # {}
              /\ Max(Opens(p_text)) < Max(Closes(p_text))
           THEN /\ p_out.span.tried
                /\ p_out.span.str =
                      SubSeq(p_text, Max(Opens(p_text)), Max(Closes(p_text)))
           ELSE /\ ~p_out.span.tried
                /\ HasKey(p_out.results, "raw_output")
                /\ p_out.results["raw_output"] = p_text
        /\ (p_text = TieBreakExample => p_out.results = OnlyB)

\* a `{` after the last `}`: the earlier {"a":1} is not selected
C9_Witness ==
    /\ p_out.done
    /\ p_text = <<LB, "a:1", RB, LB>>
    /\ ~p_out.span.tried
    /\ HasKey(p_out.results, "raw_output")

\* C10: after a successful execution whose stdout has no span, or whose span is
\* no valid JSON, the returned result has raw_output = the full stdout text, and
\* is no `error` result (the interpretation request not having failed).
C10_RawOutputFallback ==
    \A a \in Agents :
        ( /\ Returned(a)
          /\ InCalls(a, "interpret") /\ exc[a] \notin InterpretFailures
          /\ (~JsonSpan(stdout_text[a]).tried
                \/ ~JsonLoads(JsonSpan(stdout_text[a]).str).ok) )
        => /\ HasKey(ret[a], "raw_output")
           /\ ret[a]["raw_output"] = stdout_text[a]
           /\ ~HasKey(ret[a], "error")
           /\ ~raised[a]

Degraded(d) == d = EmptyDict \/ HasKey(d, "error")

\* a sequence of lines, each a sequence of tokens
IsText(t) == \A i \in DOMAIN t : DOMAIN t[i] = 1..Len(t[i])

\* C12: whatever subset of the three agent results is error-shaped or empty,
\* synthesize_insights returns a string and generate_html_report returns a
\* document; a degraded result makes neither of them raise.
C12_BestEffortAggregation ==
    /\ r_out.stage \in {"synth", "report"} =>
          /\ ~r_out.coord.raised
          /\ IsText(r_out.coord.insights)
    /\ r_out.stage = "report" =>
          /\ r_out.report.raised => ~Degraded(r_in.anomalies)
          /\ ~r_out.report.raised => r_out.report.written
          /\ Degraded(r_in.anomalies) => r_out.report.quality_score = DefaultQuality
          /\ Degraded(r_in.stats) => r_out.report.stats_html = << >>
          /\ Degraded(r_in.viz) => r_out.report.charts_html = << >>

\* all three results are degraded, two error-shaped and one empty, and the
\* report has been rendered from the coordinator's error string
C12_Witness ==
    /\ r_out.stage = "report"
    /\ HasKey(r_in.stats, "error") /\ r_in.viz = EmptyDict
    /\ HasKey(r_in.anomalies, "error")
    /\ r_out.coord.exc = "GeneratorError"
    /\ r_out.report.written /\ ~r_out.report.raised

\* the first content block of the coordinator's response carries text
FirstBlockIsText(content) == content # << >> /\ content[1].type = "text"

\* C13: synthesize_insights never raises.  When the prompt cannot be built, the
\* request fails or the first content block carries no text, it returns the
\* plain-text error message; otherwise it returns the first text block of the
\* response unchanged, after exactly one generator request.
C13_SynthesisNeverRaises ==
    r_out.stage \in {"synth", "report"} =>
        LET c == r_out.coord IN
        /\ ~c.raised
        /\ c.requests <= 1
        /\ c.exc # "none" <=> ~FirstBlockIsText(c.content)
        /\ c.exc # "none" => c.insights = SynthErrorText(c.exc)
        /\ c.exc = "none" =>
              /\ c.requests = 1
              /\ c.insights = c.content[1].text
        /\ c.exc = "PromptError" => c.requests = 0

\* the response had two text blocks and the first one was returned
C13_Witness ==
    /\ r_out.stage = "synth"
    /\ r_out.coord.exc = "none" /\ r_out.coord.requests = 1
    /\ Len(r_out.coord.content) = 2
    /\ r_out.coord.insights = r_out.coord.content[1].text
    /\ r_out.coord.insights # r_out.coord.content[2].text

\* the phases of main after the dataset check, in the order of the code
PhaseOrder == <<"agents", "viz", "synth", "report", "json">>

IsPrefix(s, t) == Len(s) <= Len(t) /\ s = SubSeq(t, 1, Len(s))

ReportFile == "results/analysis_report.html"

JsonFile == "results/raw_results.json"

DashboardFile == "results/visualizations.html"

\* C14: in a run of main that passes the dataset check the phases happen in
\* this order, each after the previous one has finished and none twice: both
\* remote agents terminal, create_visualizations, synthesize_insights (once,
\* with exactly the three results), the report file, the JSON dump.
C14_PhasesInOrder ==
    /\ IsPrefix(trace, PhaseOrder)
    /\ trace # << >> => datasetExists /\ \A a \in Agents : pc[a] = "done"
    /\ vpc # "idle" => Len(trace) >= 1
    /\ Len(trace) >= 2 => vpc = "done"
    /\ Len(synthArgs) <= 1 /\ coord.requests <= Len(synthArgs)
    /\ Len(synthArgs) = 1 <=> Len(trace) >= 3
    /\ Len(synthArgs) = 1 =>
          /\ synthArgs[1].stats = ret["stat"]
          /\ synthArgs[1].anomalies = ret["anom"]
          /\ DOMAIN synthArgs[1].viz = DOMAIN vret
          /\ \A k \in DOMAIN vret : synthArgs[1].viz[k] = vret[k]
    /\ ReportFile \in files <=> Len(trace) >= 4
    /\ JsonFile \in files <=> Len(trace) = 5

\* a run that went through the five phases
C14_Witness ==
    /\ mpc = "done" /\ trace = PhaseOrder
    /\ Len(synthArgs) = 1
    /\ HasKey(synthArgs[1].viz, "count")
    /\ {ReportFile, JsonFile} \subseteq files

\* C15: when the dataset path does not exist main stops after the diagnostic:
\* no sandbox is created, no generator request is made, the results directory
\* is not created and no file is written.
C15_MissingDatasetNoSideEffects ==
    ~datasetExists =>
        /\ mpc \in {"start", "aborted"}
        /\ \A a \in Agents : pc[a] = "init" /\ sandbox[a] = "none" /\ calls[a] = << >>
        /\ ready = << >> /\ vpc = "idle" /\ trace = << >>
        /\ synthArgs = << >> /\ coord.requests = 0
        /\ files = {}

\* main has returned at the dataset check
C15_Witness ==
    /\ ~datasetExists /\ mpc = "aborted"
    /\ files = {} /\ \A a \in Agents : sandbox[a] = "none"

\* C16: a run that reaches Phase 4 persists results/analysis_report.html and
\* results/raw_results.json, and the standalone visualization index is written
\* exactly when the visualization step returned at least one chart path.
C16_ArtifactsPersisted ==
    /\ mpc # "crashed"
    /\ mpc \in {"report", "json", "done"} =>
          /\ "results/" \in files
          /\ DashboardFile \in files <=> Len(Get(viz_results, "charts", << >>)) >= 1
    /\ mpc \in {"json", "done"} => ReportFile \in files /\ html_report.written
    /\ mpc = "done" => JsonFile \in files
    /\ mpc \in {"start", "aborted", "gather", "await", "phase2", "phase3", "phase4"} =>
          files \cap {DashboardFile, ReportFile, JsonFile} = {}

\* a finished run whose visualization step returned charts: the three documents
C16_Witness ==
    /\ mpc = "done"
    /\ Len(chart_paths) >= 1
    /\ {DashboardFile, ReportFile, JsonFile} \subseteq files

\* a finished run whose visualization step failed: no index document
C16_WitnessNoCharts ==
    /\ mpc = "done"
    /\ HasKey(viz_results, "error")
    /\ DashboardFile \notin files /\ {ReportFile, JsonFile} \subseteq files

\* the columns the primary rules of the four charts look for
NamedColumns == {"categories", "total", "order_date", "quantity", "price",
                 "product_names"}

\* the table has none of the named columns and at least one numeric column
OnlyUnnamedColumns(d) ==
    /\ d # << >>
    /\ \A i \in DOMAIN d : d[i].name \notin NamedColumns
    /\ Len(NumericCols(d)) >= 1

\* create_visualizations has returned its dict of charts
VizReturnedCharts == vpc = "done" /\ vexc = "none"

NoBlockFailed == \A i \in DOMAIN chartlog : chartlog[i].saved

AllChartPaths == [n \in 1..4 |-> ChartPath(n)]

RECURSIVE SavedPaths(_)
\* the paths of the chart blocks that did not fail, in order
SavedPaths(log) ==
    IF log = << >> THEN << >>
    ELSE (IF Head(log).saved THEN <<ChartPath(Head(log).n)>> ELSE << >>)
         \o SavedPaths(Tail(log))

\* C18: each of the four chart steps is attempted whatever happened to the
\* earlier ones; the returned `charts` is exactly the subsequence of
\* chart_1.png .. chart_4.png whose step did not fail, and `count` its length.
C18_IndependentChartSteps ==
    /\ \A n \in 1..4 : vpc = ChartPc(n) =>
          Len(chartlog) = n - 1 /\ charts = SavedPaths(chartlog)
    /\ vpc = "return" => Len(chartlog) = 4
    /\ VizReturnedCharts =>
          /\ Len(chartlog) = 4
          /\ \A i \in 1..4 : chartlog[i].n = i
          /\ vret["charts"] = SavedPaths(chartlog)
          /\ vret["count"] = Len(vret["charts"])

\* chart 2 failed, charts 1, 3 and 4 were still made and returned
C18_Witness ==
    /\ VizReturnedCharts
    /\ ~chartlog[2].saved
    /\ vret["charts"] = <<ChartPath(1), ChartPath(3), ChartPath(4)>>
    /\ vret["count"] = 3

\* C19: a chart whose primary columns are absent and whose fallback has nothing
\* to plot is skipped: no file is written for it and its path is not in `charts`.
C19_NothingToPlotSkipped ==
    \A i \in DOMAIN chartlog :
        chartlog[i].branch = "blank" =>
            /\ ~chartlog[i].saved
            /\ ChartPath(chartlog[i].n) \notin files
            /\ \A j \in DOMAIN charts : charts[j] # ChartPath(chartlog[i].n)

\* the statistical agent is past a network call and has not finished
StatSuspended == mpc = "await" /\ pc["stat"] \notin {"init", "create", "done"}

\* C20: during Phase 1 every network call of an agent is a suspension point, so
\* while the statistical agent is between two of its steps the anomaly agent
\* can take a step.
C20_AnomalyStepBetweenStatSteps ==
    (StatSuspended /\ pc["anom"] = "init") => ENABLED AgentStart("anom")

\* what the code does instead: the anomaly agent makes no move before the
\* statistical agent has returned
AgentsRunInSequence ==
    (pc["anom"] # "init" \/ calls["anom"] # << >>) => pc["stat"] = "done"

\* everything an agent keeps for itself during its run
AgentState(a) ==
    <<sandbox[a], messages[a], response[a], tool_use[a], execution[a],
      stdout_text[a], results[a], ret[a], exc[a], calls[a]>>

\* C21: each remote agent run creates one session and one message history of
\* its own: during Phase 1 a step that is not a step of agent a leaves a's
\* session, message list and every other piece of a's state as it was, and no
\* agent creates a second session.
C21_NoSharedAgentState ==
    [][ (mpc = "await" /\ mpc' = "await") =>
           \A a \in Agents :
              /\ pc'[a] = pc[a] => AgentState(a)' = AgentState(a)
              /\ CountCalls(a, "create")' <= 1 ]_vars

\* both agents hold a session and a message history of their own
C21_Witness ==
    /\ mpc = "await"
    /\ pc["stat"] = "done" /\ sandbox["stat"] = "killed"
    /\ pc["anom"] = "interpret" /\ sandbox["anom"] = "live"
    /\ Len(messages["stat"]) = 3 /\ Len(messages["anom"]) = 3
    /\ messages["stat"] # messages["anom"]

\* the pieces of text a rendered document shows
DocTexts(doc) ==
    UNION { { doc.insights_html[i].name }
            \cup { doc.insights_html[i].body[j].title :
                      j \in DOMAIN doc.insights_html[i].body }
            \cup { doc.insights_html[i].body[j].text :
                      j \in DOMAIN doc.insights_html[i].body }
            : i \in DOMAIN doc.insights_html }
    \cup { <<doc.kpis[i]>> : i \in DOMAIN doc.kpis }
    \cup { <<doc.stats_html[i]>> : i \in DOMAIN doc.stats_html }

\* the error messages the JSON dump carries
JsonErrors(j) ==
    (IF HasKey(j.statistics, "error") THEN { j.statistics["error"] } ELSE {})
    \cup (IF HasKey(j.anomalies, "error") THEN { j.anomalies["error"] } ELSE {})

\* C22: whenever the statistical, anomaly or visualization result carries an
\* `error` key, that error message is in the data written to raw_results.json
\* and in the rendered HTML report.
C22_ErrorsInJsonAndReport ==
    mpc = "done" =>
        /\ HasKey(stats_results, "error") =>
              /\ stats_results["error"] \in JsonErrors(json_dump)
              /\ stats_results["error"] \in DocTexts(html_report)
        /\ HasKey(anomaly_results, "error") =>
              /\ anomaly_results["error"] \in JsonErrors(json_dump)
              /\ anomaly_results["error"] \in DocTexts(html_report)
        /\ HasKey(viz_results, "error") =>
              /\ viz_results["error"] \in JsonErrors(json_dump)
              /\ viz_results["error"] \in DocTexts(html_report)

\* the line shows in the rendered insights: as a section heading, or as the
\* element build_insights_html makes of it
LineRendered(line, html) ==
    \E i \in DOMAIN html :
        \/ StartsWith(line, H2) /\ html[i].name = Strip(Remove(line, H2))
        \/ \E j \in DOMAIN html[i].body : html[i].body[j] = LineHtml(Strip(line))

\* C23: lines of the prose report that are under no `## ` heading (a report
\* without any heading included) degrade to plain paragraphs: every non-blank
\* line of the report appears in build_insights_html(parse_insights(report)).
C23_EveryLineRendered ==
    r_out.stage \in {"synth", "report", "again"} =>
        \A i \in DOMAIN r_out.coord.insights :
            Strip(r_out.coord.insights[i]) # << >> =>
                LineRendered(r_out.coord.insights[i],
                             build_insights_html(parse_insights(r_out.coord.insights)))

Steps == <<"create", "upload", "generate", "run_code", "interpret", "kill">>

StepRank(step) == CHOOSE i \in DOMAIN Steps : Steps[i] = step

\* C25: within one run of a remote agent the steps occur only in the order
\* create session, upload dataset, generation request, code execution, stdout
\* parse, interpretation request, destroy session; the session is destroyed at
\* most once, and no upload, execution or generator request follows it.
C25_StepsInOrder ==
    \A a \in Agents :
        /\ \A i, j \in DOMAIN calls[a] :
              i < j => StepRank(calls[a][i]) < StepRank(calls[a][j])
        /\ \A i \in DOMAIN calls[a] : calls[a][i] # "kill" => calls[a][i] = Steps[i]
        /\ pc[a] = "parse" => calls[a][Len(calls[a])] = "run_code"
        /\ (mpc = "await" /\ InCalls(a, "interpret")) => Len(messages[a]) = 3
        /\ CountCalls(a, "kill") <= 1
        /\ sandbox[a] = "killed" =>
              pc[a] = "done" /\ calls[a][Len(calls[a])] = "kill"

C25_Witness ==
    /\ calls["stat"] = Steps
    /\ sandbox["stat"] = "killed"
    /\ pc["stat"] = "done" /\ exc["stat"] = "none"

\* the history is the task prompt, the assistant's answer and the tool_result
\* of the invocation that was executed
HistoryOfThree(a) ==
    /\ Len(messages[a]) = 3
    /\ messages[a][1] = Prompt(a)
    /\ messages[a][2] = [role |-> "assistant", content |-> response[a].content]
    /\ messages[a][3].role = "user"
    /\ messages[a][3].content =
          <<[type |-> "tool_result", id |-> tool_use[a].id, text |-> stdout_text[a]]>>
    /\ \E i \in DOMAIN messages[a][2].content : messages[a][2].content[i] = tool_use[a]

\* every tool_use block of an assistant message has a tool_result later on
AllAcknowledged(a) ==
    \A m \in DOMAIN messages[a] : \A i \in DOMAIN messages[a][m].content :
        messages[a][m].content[i].type = "tool_use" =>
            \E n \in DOMAIN messages[a] : \E j \in DOMAIN messages[a][n].content :
                /\ n > m
                /\ messages[a][n].content[j].type = "tool_result"
                /\ messages[a][n].content[j].id = messages[a][m].content[i].id

\* C26: an interpretation request is sent only when the history is the task
\* prompt, the assistant's tool-invocation response and a tool_result with the
\* same tool_use id and the execution's stdout, and never with an
\* unacknowledged tool invocation in the history.
C26_InterpretAfterAcknowledgement ==
    \A a \in Agents :
        (mpc = "await" /\ (pc[a] = "interpret" \/ InCalls(a, "interpret"))) =>
            HistoryOfThree(a) /\ AllAcknowledged(a)

\* the table as pd.read_csv gave it: the dataset with the columns of df
LoadedTable ==
    CHOOSE d \in DatasetCases :
        Len(d) = Len(df) /\ \A k \in DOMAIN d : d[k].name = df[k].name

\* C27: no chart step mutates the loaded table: the columns and column types
\* seen by charts 3 and 4 are those loaded from the CSV, so each chart's choice
\* of rule depends only on the original dataset.
C27_TableNeverMutated ==
    vpc \in {"chart2", "chart3", "chart4", "return"} =>
        /\ df = LoadedTable
        /\ \A i \in DOMAIN chartlog :
              chartlog[i].branch = ChartBranch(chartlog[i].n, LoadedTable)

\* C28: in the visualization test flow with the improved prompt the generated
\* code is run in the sandbox only if it has a plotting keyword and at least 4
\* occurrences of plt.show(); code that fails the check is never executed, and
\* the sandbox is destroyed at the end of the flow whichever branch was taken.
C28_TestRunsOnlyValidCode ==
    /\ rv_ran # NoCode =>
          /\ HasPlotting(rv_ran) /\ ShowCount(rv_ran) >= MinShows
          /\ rv_ran = rv_code /\ Len(rv_requests) = 2
    /\ rv_pc = "execute" => HasPlotting(rv_code) /\ ShowCount(rv_code) >= MinShows
    /\ rv_pc = "done" => rv_sandbox = "killed"

C28_Witness ==
    /\ rv_pc = "done" /\ rv_sandbox = "killed"
    /\ rv_requests = <<"original", "improved">>
    /\ rv_checks = <<TRUE, TRUE>>
    /\ rv_ran # NoCode /\ rv_ran = rv_code

\* the other branch: the code fails the check, is not run, and the sandbox is
\* destroyed all the same
C28_WitnessRejected ==
    /\ rv_pc = "done" /\ rv_sandbox = "killed"
    /\ rv_checks = <<TRUE, FALSE>>
    /\ HasPlotting(rv_code) /\ rv_ran = NoCode

NoRepeat(seq) == \A i, j \in DOMAIN seq : seq[i] = seq[j] => i = j

\* C29: each remote agent issues at most two generator requests (one
\* generation, at most one interpretation) and at most one code execution, and
\* main invokes each agent and the coordinator exactly once: nothing is retried.
C29_NoRetry ==
    /\ \A a \in Agents :
          /\ CountCalls(a, "generate") <= 1
          /\ CountCalls(a, "interpret") <= 1
          /\ CountCalls(a, "run_code") <= 1
          /\ CountCalls(a, "create") <= 1
          /\ trace # << >> => pc[a] = "done" /\ CountCalls(a, "create") = 1
    /\ Len(synthArgs) <= 1
    /\ coord.requests <= 1
    /\ NoRepeat(trace)
    /\ mpc = "done" =>
          /\ Len(synthArgs) = 1
          /\ vpc = "done"
          /\ trace = PhaseOrder

C29_Witness ==
    /\ mpc = "done"
    /\ calls["stat"] = Steps
    /\ CountCalls("anom", "generate") = 1 /\ CountCalls("anom", "interpret") = 1
    /\ CountCalls("anom", "run_code") = 1
    /\ coord.requests = 1

\* the last object printed, the one closed by the last `}`, has a nested object
NestedLastObject(text) ==
    \E i \in DOMAIN text :
        /\ ParseObject(text, i).ok
        /\ ParseObject(text, i).next = JsonEnd(text) + 1
        /\ HasKey(ParseObject(text, i).obj, "data_quality")

\* the span from the last `{` to the last `}` is one complete flat object
FlatSpan(text) ==
    /\ JsonSpan(text).tried
    /\ JsonLoads(JsonSpan(text).str).ok
    /\ Cardinality(Opens(JsonSpan(text).str)) = 1
    /\ Cardinality(Closes(JsonSpan(text).str)) = 1

\* C30: the parsed result of a remote agent is never a truncated inner object:
\* when the last JSON object on stdout has a nested object the rightmost-brace
\* span fails to parse and the agent returns raw_output with the full stdout
\* instead of top-level keys; a parsed result is returned only when the span
\* from the last `{` to the last `}` is itself a complete flat object.
C30_NoTruncatedInnerObject ==
    \A a \in Agents :
        ( /\ Returned(a)
          /\ InCalls(a, "interpret") /\ exc[a] \notin InterpretFailures )
        => /\ NestedLastObject(stdout_text[a]) =>
                 /\ ~JsonLoads(JsonSpan(stdout_text[a]).str).ok
                 /\ HasKey(ret[a], "raw_output")
                 /\ ret[a]["raw_output"] = stdout_text[a]
                 /\ ~HasKey(ret[a], "a") /\ ~HasKey(ret[a], "b")
           /\ ~HasKey(ret[a], "raw_output") =>
                 /\ FlatSpan(stdout_text[a])
                 /\ Carries(ret[a], JsonLoads(JsonSpan(stdout_text[a]).str).obj)

====
